---------------------------- MODULE Spec2Model ----------------------------
(***************************************************************************)
(* A model of the screen-geometry package: Screen construction, to_global, *)
(* find_intersect (flat and curved) and find_screen_and_point.             *)
(*                                                                         *)
(* Numbers.  The code computes in IEEE double precision.  The model keeps  *)
(* the values exact: a number is a pair <<n, d>>, the rational n/d in      *)
(* lowest terms with d > 0, or one of the three IEEE specials, written     *)
(* with d = 0: <<1,0>> is +inf, <<-1,0>> is -inf and <<0,0>> is NaN.  The  *)
(* arithmetic below follows the IEEE rules for the specials (inf - inf,    *)
(* 0 * inf, 0 / 0 are NaN, x / 0 is an infinity, every comparison with NaN *)
(* is false).  The sign of a zero is not tracked, so the sign of x / 0 is  *)
(* an input of the division (zs), chosen by the caller among 1 and -1.     *)
(* Numerators and denominators are reduced before they are multiplied, to  *)
(* keep the products small.                                                *)
(*                                                                         *)
(* Angles and arc lengths.  sin, cos, arccos and arctan2 are exact on the  *)
(* angles  a * ALPHA + h * (pi/2)  with integer a and h, where ALPHA is    *)
(* the angle with cos = 4/5 and sin = 3/5: every such angle has a rational *)
(* sine and cosine.  A real is a triple <<q, a, h>>, the number            *)
(* q + a * ALPHA + h * (pi/2) with q, a, h numbers as above (a, h finite). *)
(* Widths and pixel x coordinates of curved screens are such reals (an arc *)
(* length is radius * angle).  The operations are applied only to inputs   *)
(* on which every square root, arccos and arctan2 is exact (the guards     *)
(* named Exact...).                                                        *)
(***************************************************************************)
EXTENDS Integers, Sequences, FiniteSets, TLC

-----------------------------------------------------------------------------
(* Integers *)

Abs(n) == IF n < 0 THEN -n ELSE n

Sgn(n) == IF n < 0 THEN -1 ELSE IF n > 0 THEN 1 ELSE 0

RECURSIVE GCD(_, _)
GCD(a, b) == IF b = 0 THEN a ELSE GCD(b, a % b)

\* The integer square root of n >= 0, by bisection on lo..hi.
RECURSIVE ISqrtIn(_, _, _)
ISqrtIn(n, lo, hi) ==
    IF lo >= hi THEN lo
    ELSE LET mid == (lo + hi + 1) \div 2
         IN  IF mid * mid <= n THEN ISqrtIn(n, mid, hi)
                               ELSE ISqrtIn(n, lo, mid - 1)

ISqrt(n) == ISqrtIn(n, 0, IF n < 46340 THEN n ELSE 46340)

IsSquare(n) == n >= 0 /\ ISqrt(n) * ISqrt(n) = n

-----------------------------------------------------------------------------
(* Numbers: rationals with the IEEE specials *)

NaN == <<0, 0>>
PInf == <<1, 0>>
NInf == <<-1, 0>>

\* The number n/d in lowest terms (d # 0).
Q(n, d) ==
    LET g == GCD(Abs(n), Abs(d))
        s == Sgn(d)
    IN  <<(s * n) \div g, Abs(d) \div g>>

I(n) == <<n, 1>>

Zero == I(0)
One == I(1)

IsNaN(x) == x = NaN
IsInf(x) == x[2] = 0 /\ x[1] # 0
IsFinite(x) == x[2] > 0

FNeg(x) == <<-x[1], x[2]>>

FAdd(x, y) ==
    IF IsNaN(x) \/ IsNaN(y) THEN NaN
    ELSE IF IsInf(x) THEN (IF IsInf(y) /\ y # x THEN NaN ELSE x)
    ELSE IF IsInf(y) THEN y
    ELSE LET g == GCD(x[2], y[2])
         IN  Q(x[1] * (y[2] \div g) + y[1] * (x[2] \div g), (x[2] \div g) * y[2])

FSub(x, y) == FAdd(x, FNeg(y))

FMul(x, y) ==
    IF IsNaN(x) \/ IsNaN(y) THEN NaN
    ELSE IF IsInf(x) \/ IsInf(y)
         THEN (IF x[1] = 0 \/ y[1] = 0 THEN NaN
               ELSE <<Sgn(x[1]) * Sgn(y[1]), 0>>)
    ELSE LET g == GCD(Abs(x[1]), y[2])
             h == GCD(Abs(y[1]), x[2])
         IN  <<(x[1] \div g) * (y[1] \div h), (x[2] \div h) * (y[2] \div g)>>

\* x / y.  zs is the sign of y when y is a zero.
FDiv(x, y, zs) ==
    IF IsNaN(x) \/ IsNaN(y) THEN NaN
    ELSE IF IsInf(y) THEN (IF IsInf(x) THEN NaN ELSE Zero)
    ELSE IF y[1] = 0
         THEN (IF x[1] = 0 THEN NaN ELSE <<Sgn(x[1]) * zs, 0>>)
    ELSE IF IsInf(x) THEN <<Sgn(x[1]) * Sgn(y[1]), 0>>
    ELSE LET g == GCD(Abs(x[1]), Abs(y[1]))
             h == GCD(x[2], y[2])
         IN  Q((x[1] \div g) * (y[2] \div h), (x[2] \div h) * (y[1] \div g))

\* x < y and x <= y; false when either is NaN.
FLt(x, y) ==
    /\ ~IsNaN(x)
    /\ ~IsNaN(y)
    /\ IF IsInf(x) \/ IsInf(y)
       THEN (x # y /\ (x = NInf \/ y = PInf))
       ELSE LET g == GCD(x[2], y[2])
            IN  x[1] * (y[2] \div g) < y[1] * (x[2] \div g)

FLe(x, y) == ~IsNaN(x) /\ ~IsNaN(y) /\ (x = y \/ FLt(x, y))

\* Whether np.sqrt(x) is a number of the model: x is a special, negative
\* (the root is NaN), or the square of a rational.
ExactSqrt(x) ==
    \/ ~IsFinite(x)
    \/ x[1] < 0
    \/ (IsSquare(x[1]) /\ IsSquare(x[2]))

FSqrt(x) ==
    IF IsNaN(x) \/ x = NInf THEN NaN
    ELSE IF x = PInf THEN PInf
    ELSE IF x[1] < 0 THEN NaN
    ELSE <<ISqrt(x[1]), ISqrt(x[2])>>

\* np.sign
FSign(x) == IF IsNaN(x) THEN NaN ELSE I(Sgn(x[1]))

-----------------------------------------------------------------------------
(* Vectors and matrices (np.ndarray): a vector is a tuple of three numbers, *)
(* a matrix a tuple of three rows.                                          *)

\* u @ v
Dot(u, v) == FAdd(FAdd(FMul(u[1], v[1]), FMul(u[2], v[2])), FMul(u[3], v[3]))

VAdd(u, v) == <<FAdd(u[1], v[1]), FAdd(u[2], v[2]), FAdd(u[3], v[3])>>

VSub(u, v) == <<FSub(u[1], v[1]), FSub(u[2], v[2]), FSub(u[3], v[3])>>

\* s * v
VScale(s, v) == <<FMul(s, v[1]), FMul(s, v[2]), FMul(s, v[3])>>

\* np.cross(u, v)
Cross(u, v) ==
    << FSub(FMul(u[2], v[3]), FMul(u[3], v[2])),
       FSub(FMul(u[3], v[1]), FMul(u[1], v[3])),
       FSub(FMul(u[1], v[2]), FMul(u[2], v[1])) >>

\* M @ v
MatVec(M, v) == <<Dot(M[1], v), Dot(M[2], v), Dot(M[3], v)>>

\* M[:, j]
Col(M, j) == <<M[1][j], M[2][j], M[3][j]>>

\* A @ B
MatMul(A, B) ==
    [i \in 1..3 |-> [j \in 1..3 |-> Dot(A[i], Col(B, j))]]

\* The argument of the square root in np.linalg.norm(v)
NormSq(v) == Dot(v, v)

\* np.linalg.norm(v)
Norm(v) == FSqrt(NormSq(v))

VFinite(v) == IsFinite(v[1]) /\ IsFinite(v[2]) /\ IsFinite(v[3])

-----------------------------------------------------------------------------
(* Reals q + a * ALPHA + h * (pi/2), and the trigonometry that is exact on  *)
(* them.                                                                    *)

\* The largest |a| of an angle a * ALPHA + h * (pi/2) that arccos and
\* arctan2 return.
MaxMult == 2

\* The real of a number
RQ(q) == <<q, Zero, Zero>>

\* The angle a * ALPHA + h * (pi/2), a and h integers
RAngle(a, h) == <<Zero, I(a), I(h)>>

RNaN == RQ(NaN)

RIsNaN(x) == IsNaN(x[1])

RIsFinite(x) == IsFinite(x[1])

\* A real with no angle part is a number.
IsRat(x) == x[2] = Zero /\ x[3] = Zero

RatOf(x) == x[1]

\* A special has no angle part.
RNorm(x) == IF IsFinite(x[1]) THEN x ELSE RQ(x[1])

\* The sign of a real: of the special, or of the number
\* q + a * ALPHA + h * (pi/2), decided from bounds on the two constants:
\* ALPHA lies between 0.6435 and 0.6436, pi/2 between 1.5707 and 1.5708.
RSgn(x) ==
    IF ~IsFinite(x[1]) THEN x[1][1]
    ELSE IF IsRat(x) THEN Sgn(x[1][1])
    ELSE LET nq == x[1][1] * x[2][2] * x[3][2]
             na == x[2][1] * x[1][2] * x[3][2]
             nh == x[3][1] * x[1][2] * x[2][2]
             lo == 10000 * nq
                   + (IF na >= 0 THEN 6435 ELSE 6436) * na
                   + (IF nh >= 0 THEN 15707 ELSE 15708) * nh
             hi == 10000 * nq
                   + (IF na >= 0 THEN 6436 ELSE 6435) * na
                   + (IF nh >= 0 THEN 15708 ELSE 15707) * nh
         IN  IF lo > 0 THEN 1 ELSE IF hi < 0 THEN -1 ELSE 0

RNeg(x) == <<FNeg(x[1]), FNeg(x[2]), FNeg(x[3])>>

RAdd(x, y) == RNorm(<<FAdd(x[1], y[1]), FAdd(x[2], y[2]), FAdd(x[3], y[3])>>)

RSub(x, y) == RAdd(x, RNeg(y))

\* x * s for a number s
RScale(x, s) ==
    IF RIsNaN(x) \/ IsNaN(s) THEN RNaN
    ELSE IF IsFinite(x[1]) /\ IsFinite(s)
         THEN <<FMul(x[1], s), FMul(x[2], s), FMul(x[3], s)>>
    ELSE IF RSgn(x) = 0 \/ s[1] = 0 THEN RNaN
    ELSE RQ(<<RSgn(x) * Sgn(s[1]), 0>>)

\* x / s for a number s; zs is the sign of s when s is a zero.
RDiv(x, s, zs) ==
    IF RIsNaN(x) \/ IsNaN(s) THEN RNaN
    ELSE IF IsInf(s) THEN (IF RIsFinite(x) THEN RQ(Zero) ELSE RNaN)
    ELSE IF s[1] = 0
         THEN (IF RSgn(x) = 0 THEN RNaN ELSE RQ(<<RSgn(x) * zs, 0>>))
    ELSE IF ~RIsFinite(x) THEN RQ(<<RSgn(x) * Sgn(s[1]), 0>>)
    ELSE <<FDiv(x[1], s, zs), FDiv(x[2], s, zs), FDiv(x[3], s, zs)>>

RLt(x, y) == ~RIsNaN(x) /\ ~RIsNaN(y) /\ RSgn(RSub(y, x)) = 1 /\ x # y

RLe(x, y) == ~RIsNaN(x) /\ ~RIsNaN(y) /\ (x = y \/ RLt(x, y))

\* Complex multiplication of <<cos, sin>> pairs: the addition formulas.
CisMul(u, v) ==
    << FSub(FMul(u[1], v[1]), FMul(u[2], v[2])),
       FAdd(FMul(u[1], v[2]), FMul(u[2], v[1])) >>

\* <<cos, sin>> of a * ALPHA
RECURSIVE CisAlpha(_)
CisAlpha(a) ==
    IF a = 0 THEN <<One, Zero>>
    ELSE IF a > 0 THEN CisMul(CisAlpha(a - 1), <<Q(4, 5), Q(3, 5)>>)
    ELSE CisMul(CisAlpha(a + 1), <<Q(4, 5), Q(-3, 5)>>)

\* <<cos, sin>> of h * (pi/2)
CisQuarter(h) ==
    CASE h % 4 = 0 -> <<One, Zero>>
      [] h % 4 = 1 -> <<Zero, One>>
      [] h % 4 = 2 -> <<I(-1), Zero>>
      [] h % 4 = 3 -> <<Zero, I(-1)>>

\* Whether np.cos(x) and np.sin(x) are numbers of the model: x is a special
\* (the result is NaN) or an angle a * ALPHA + h * (pi/2).
ExactTrig(x) ==
    \/ ~RIsFinite(x)
    \/ (x[1] = Zero /\ x[2][2] = 1 /\ x[3][2] = 1)

Cis(x) == CisMul(CisAlpha(x[2][1]), CisQuarter(x[3][1]))

\* np.cos(x), np.sin(x)
FCos(x) == IF ~RIsFinite(x) THEN NaN ELSE Cis(x)[1]

FSin(x) == IF ~RIsFinite(x) THEN NaN ELSE Cis(x)[2]

\* The angles a * ALPHA + h * (pi/2) with |a| <= MaxMult in [lo, hi] quarter
\* turns that the inverse functions return.
Angles == { RAngle(a, h) : a \in -MaxMult..MaxMult, h \in -(MaxMult + 2)..(MaxMult + 2) }

\* The angles of [0, pi], the range of arccos
ArcCosRange == { x \in Angles : RLe(RQ(Zero), x) /\ RLe(x, RAngle(0, 2)) }

\* The angles of (-pi, pi], the range of arctan2
ArcTan2Range == { x \in Angles : RLt(RAngle(0, -2), x) /\ RLe(x, RAngle(0, 2)) }

\* Whether np.arccos(c) is a real of the model.
ExactArcCos(c) ==
    \/ ~IsFinite(c)
    \/ FLt(c, I(-1))
    \/ FLt(One, c)
    \/ \E x \in ArcCosRange : FCos(x) = c

\* np.arccos(c): NaN outside [-1, 1]
ArcCos(c) ==
    IF ~IsFinite(c) \/ FLt(c, I(-1)) \/ FLt(One, c) THEN RNaN
    ELSE CHOOSE x \in ArcCosRange : FCos(x) = c

\* Whether np.arctan2(y, x) is a real of the model (y and x finite).
ExactArcTan2(y, x) ==
    /\ IsFinite(y)
    /\ IsFinite(x)
    /\ \/ (y = Zero /\ x = Zero)
       \/ \E t \in ArcTan2Range :
             /\ FMul(FSin(t), x) = FMul(FCos(t), y)
             /\ Sgn(FSin(t)[1]) = Sgn(y[1])
             /\ Sgn(FCos(t)[1]) = Sgn(x[1])

\* np.arctan2(y, x): the angle of the direction (x, y); 0 at the origin.
ArcTan2(y, x) ==
    IF y = Zero /\ x = Zero THEN RQ(Zero)
    ELSE CHOOSE t \in ArcTan2Range :
             /\ FMul(FSin(t), x) = FMul(FCos(t), y)
             /\ Sgn(FSin(t)[1]) = Sgn(y[1])
             /\ Sgn(FCos(t)[1]) = Sgn(x[1])

\* np.deg2rad on the degrees  a * ALPHA_DEGREES + d  with d a multiple of 90,
\* given as <<a, d>>.
ExactDeg2Rad(deg) == deg[2] % 90 = 0

deg2rad(deg) == RAngle(deg[1], deg[2] \div 90)

-----------------------------------------------------------------------------
(* utils.py.  An operator whose name ends in the name of a local variable   *)
(* is the rest of the function from the assignment of that variable on,     *)
(* with the value as a parameter.                                           *)

\* cosine = (p @ q) / np.linalg.norm(p) / np.linalg.norm(q)
get_angle_cosine(p, q, zs) == FDiv(FDiv(Dot(p, q), Norm(p), zs), Norm(q), zs)

Exact_get_angle(p, q, zs) ==
    /\ ExactSqrt(NormSq(p))
    /\ ExactSqrt(NormSq(q))
    /\ ExactArcCos(get_angle_cosine(p, q, zs))

get_angle(p, q, zs) == ArcCos(get_angle_cosine(p, q, zs))

\* x ** 2 + z ** 2
get_spherical_xz(point) == FAdd(FMul(point[1], point[1]), FMul(point[3], point[3]))

Exact_get_spherical(point) ==
    /\ VFinite(point)
    /\ ExactArcTan2(point[1], point[3])
    /\ ExactSqrt(get_spherical_xz(point))
    /\ ExactArcTan2(point[2], FSqrt(get_spherical_xz(point)))

\* <<theta, phi>>
get_spherical(point) ==
    << ArcTan2(point[1], point[3]),
       ArcTan2(point[2], FSqrt(get_spherical_xz(point))) >>

-----------------------------------------------------------------------------
(* screens.py: class Screen.  A Screen is a record of its attributes; an    *)
(* attribute a flat screen does not have (and radius = None) is <<>>.       *)

None == <<>>

Two == I(2)

\* self.width / 2
HalfWidth(self) == RDiv(self.width, Two, 1)

\* self.height / 2
HalfHeight(self) == FDiv(self.height, Two, 1)

\* return self.rotation @ abc + self.shift
to_global_abc(self, abc) == VAdd(MatVec(self.rotation, abc), self.shift)

\* The curved branch, from angle = x_shift / self.radius on
to_global_angle(self, angle, y_shift) ==
    to_global_abc(self, << FMul(self.radius, FSin(angle)),
                           y_shift,
                           FMul(self.radius, FSub(One, FCos(angle))) >>)

\* A variant of to_global_shifts without the shift of pixels[0] to the centre.
to_global_shifts_uncentred(self, pixels, x_shift, y_shift, zs) ==
    IF self.radius = None
    THEN to_global_abc(self, <<RatOf(pixels[1]), y_shift, Zero>>)
    ELSE to_global_angle(self, RDiv(pixels[1], self.radius, zs), y_shift)

to_global_shifts(self, pixels, x_shift, y_shift, zs) ==
    IF self.radius = None
    THEN to_global_abc(self, <<RatOf(x_shift), y_shift, Zero>>)
    ELSE to_global_angle(self, RDiv(x_shift, self.radius, zs), y_shift)

\* Screen.to_global(pixels), pixels = <<x, y>> with x a real and y a number
to_global(self, pixels, zs) ==
    to_global_shifts(self, pixels, RSub(pixels[1], HalfWidth(self)),
                     FSub(pixels[2], HalfHeight(self)), zs)

Exact_to_global(self, pixels, zs) ==
    IF self.radius = None
    THEN IsRat(RSub(pixels[1], HalfWidth(self)))
    ELSE ExactTrig(RDiv(RSub(pixels[1], HalfWidth(self)), self.radius, zs))

pitch_matrix(pitch) ==
    << <<One, Zero, Zero>>,
       <<Zero, FCos(pitch), FNeg(FSin(pitch))>>,
       <<Zero, FSin(pitch), FCos(pitch)>> >>

yaw_matrix(yaw) ==
    << <<FCos(yaw), Zero, FNeg(FSin(yaw))>>,
       <<Zero, One, Zero>>,
       <<FSin(yaw), Zero, FCos(yaw)>> >>

\* A variant of rotation with the two matrices in the other order.
rotation_swapped(pitch, yaw) ==
    MatMul(pitch_matrix(deg2rad(pitch)), yaw_matrix(deg2rad(yaw)))

\* self.rotation = yaw_matrix @ pitch_matrix
rotation(pitch, yaw) ==
    MatMul(yaw_matrix(deg2rad(yaw)), pitch_matrix(deg2rad(pitch)))

\* A variant of normal that takes the height-wise column.
normal_column_1(rot) == Col(rot, 2)

\* self.normal = self.rotation[:, 2]
normal(rot) == Col(rot, 3)

\* __init__ up to line 86: the attributes of every Screen
init_rotation(width, height, shift, radius, rot) ==
    [ width |-> width, height |-> height, shift |-> shift, radius |-> radius,
      rotation |-> rot, normal |-> normal(rot),
      base |-> None, axis |-> None, theta_max |-> None ]

Exact_init_base(self, p, base, q, zs) ==
    Exact_get_angle(VSub(p, base), VSub(q, base), zs)

\* __init__ from line 96 on
init_base(self, p, base, q, zs) ==
    [self EXCEPT !.base = base,
                 !.axis = Col(self.rotation, 2),
                 !.theta_max = get_angle(VSub(p, base), VSub(q, base), zs)]

Exact_init_p(self, p, zs) ==
    /\ Exact_to_global(self, <<self.width, Zero>>, zs)
    /\ Exact_init_base(self, p, VAdd(p, VScale(self.radius, self.normal)),
                       to_global(self, <<self.width, Zero>>, zs), zs)

\* __init__ from line 95 on
init_p(self, p, zs) ==
    init_base(self, p, VAdd(p, VScale(self.radius, self.normal)),
              to_global(self, <<self.width, Zero>>, zs), zs)

Exact_init_curved(self, zs) ==
    IF self.radius = None THEN IsRat(self.width)
    ELSE /\ Exact_to_global(self, <<HalfWidth(self), Zero>>, zs)
         /\ Exact_init_p(self, to_global(self, <<HalfWidth(self), Zero>>, zs), zs)

\* __init__ from line 88 on
init_curved(self, zs) ==
    IF self.radius = None THEN self
    ELSE init_p(self, to_global(self, <<HalfWidth(self), Zero>>, zs), zs)

Exact_Screen_init(width, height, pitch, yaw, shift, radius, zs) ==
    /\ ExactDeg2Rad(pitch)
    /\ ExactDeg2Rad(yaw)
    /\ Exact_init_curved(init_rotation(width, height, shift, radius,
                                       rotation(pitch, yaw)), zs)

\* Screen.__init__: the constructed Screen.  There is no check of the
\* arguments and no raise in it.
Screen_init(width, height, pitch, yaw, shift, radius, zs) ==
    init_curved(init_rotation(width, height, shift, radius, rotation(pitch, yaw)), zs)

\* What find_intersect gives: the pair it returns, or the NoIntersection it
\* raises.
Hit(point, pixels) == [kind |-> "Hit", point |-> point, pixels |-> pixels]

NoIntersection == [kind |-> "NoIntersection", point |-> <<>>, pixels |-> <<>>]

\* The signs a zero divisor can have.
ZeroSigns == {1, -1}

\* A variant of flat_xy that raises when x or y is beyond a bound.
flat_xy_beyond(self, point, x, y) ==
    IF \/ FLt(x, Zero) \/ FLt(RatOf(self.width), x)
       \/ FLt(y, Zero) \/ FLt(self.height, y)
    THEN NoIntersection
    ELSE Hit(VAdd(point, self.shift), <<RQ(x), y>>)

\* A variant of flat_xy that checks the lower bounds only.
flat_xy_lower_only(self, point, x, y) ==
    IF ~(FLe(Zero, x) /\ FLe(Zero, y)) THEN NoIntersection
    ELSE Hit(VAdd(point, self.shift), <<RQ(x), y>>)

\* The flat branch from line 147 on
flat_xy(self, point, x, y) ==
    IF ~(/\ FLe(Zero, x) /\ FLe(x, RatOf(self.width))
         /\ FLe(Zero, y) /\ FLe(y, self.height))
    THEN NoIntersection
    ELSE Hit(VAdd(point, self.shift), <<RQ(x), y>>)

\* The flat branch from line 144 on
flat_point(self, point) ==
    flat_xy(self, point,
            FAdd(Dot(Col(self.rotation, 1), point), RatOf(HalfWidth(self))),
            FAdd(Dot(Col(self.rotation, 2), point), HalfHeight(self)))

\* The flat branch from line 131 on
flat_t(self, ray, t) ==
    IF FLt(t, Zero) THEN NoIntersection
    ELSE flat_point(self, VSub(VScale(t, ray), self.shift))

\* The flat branch
find_intersect_flat(self, ray, zs) ==
    flat_t(self, ray, FDiv(Dot(self.shift, self.normal), Dot(ray, self.normal), zs))

\* The curved branch from line 192 on
curved_theta(self, point, y, q, theta) ==
    IF RLt(self.theta_max, theta) THEN NoIntersection
    ELSE Hit(point,
             << RAdd(HalfWidth(self),
                     RScale(RScale(theta,
                                   FSign(Dot(VSub(point, q), Col(self.rotation, 1)))),
                            self.radius)),
                y >>)

Exact_curved_center(self, point, y, center, q, zs) ==
    Exact_get_angle(VSub(point, center), VSub(q, center), zs)

\* The curved branch from line 184 on
curved_center(self, point, y, center, q, zs) ==
    curved_theta(self, point, y, q,
                 get_angle(VSub(point, center), VSub(q, center), zs))

Exact_curved_y(self, point, y, zs) ==
    (FLe(Zero, y) /\ FLe(y, self.height)) =>
        /\ Exact_to_global(self, <<HalfWidth(self), y>>, zs)
        /\ Exact_curved_center(self, point, y,
                               VAdd(self.base, VScale(y, Col(self.rotation, 2))),
                               to_global(self, <<HalfWidth(self), y>>, zs), zs)

\* The curved branch from line 173 on
curved_y(self, point, y, zs) ==
    IF ~(FLe(Zero, y) /\ FLe(y, self.height)) THEN NoIntersection
    ELSE curved_center(self, point, y,
                       VAdd(self.base, VScale(y, Col(self.rotation, 2))),
                       to_global(self, <<HalfWidth(self), y>>, zs), zs)

Exact_curved_point(self, point, zs) ==
    Exact_curved_y(self, point, Dot(self.axis, VSub(point, self.base)), zs)

\* The curved branch from line 171 on
curved_point(self, point, zs) ==
    curved_y(self, point, Dot(self.axis, VSub(point, self.base)), zs)

\* The argument of the square root of line 161
curved_disc(self, rxa) ==
    FSub(FMul(FMul(self.radius, self.radius), Dot(rxa, rxa)),
         FMul(Dot(self.base, rxa), Dot(self.base, rxa)))

\* A variant of curved_t with the other root of the quadratic.
curved_t_minus(self, rxa, sq, zs) ==
    FDiv(FSub(Dot(rxa, Cross(self.base, self.axis)), sq), Dot(rxa, rxa), zs)

\* t of line 162
curved_t(self, rxa, sq, zs) ==
    FDiv(FAdd(Dot(rxa, Cross(self.base, self.axis)), sq), Dot(rxa, rxa), zs)

Exact_curved_rxa(self, ray, rxa, zs) ==
    /\ ExactSqrt(curved_disc(self, rxa))
    /\ Exact_curved_point(
          self, VScale(curved_t(self, rxa, FSqrt(curved_disc(self, rxa)), zs), ray), zs)

\* The curved branch from line 161 on
curved_rxa(self, ray, rxa, zs) ==
    curved_point(
        self, VScale(curved_t(self, rxa, FSqrt(curved_disc(self, rxa)), zs), ray), zs)

\* The curved branch
find_intersect_curved(self, ray, zs) ==
    curved_rxa(self, ray, Cross(ray, self.axis), zs)

\* The inputs on which the model's find_intersect is exact.
Exact_find_intersect(self, ray, zs) ==
    IF self.radius = None THEN IsRat(self.width)
    ELSE Exact_curved_rxa(self, ray, Cross(ray, self.axis), zs)

\* Screen.find_intersect(ray)
find_intersect(self, ray, zs) ==
    IF self.radius = None THEN find_intersect_flat(self, ray, zs)
    ELSE find_intersect_curved(self, ray, zs)

-----------------------------------------------------------------------------
(* scenes.py: find_screen_and_point, up to its loop *)

\* A variant of target_ray_angles that takes the two angles for each other.
target_ray_angles_swapped(theta, phi) ==
    << FMul(FCos(theta), FSin(phi)),
       FSin(theta),
       FMul(FCos(theta), FCos(phi)) >>

\* Lines 50 to 54
target_ray_angles(theta, phi) ==
    << FMul(FCos(phi), FSin(theta)),
       FSin(phi),
       FMul(FCos(phi), FCos(theta)) >>

\* theta, phi = np.deg2rad(angles) + get_spherical(fix_point)
target_ray_sph(angles, sph) ==
    target_ray_angles(RAdd(deg2rad(angles[1]), sph[1]),
                      RAdd(deg2rad(angles[2]), sph[2]))

Exact_target_ray(fix_pixels, fix_screen, angles, zs) ==
    /\ Exact_to_global(fix_screen, fix_pixels, zs)
    /\ Exact_get_spherical(to_global(fix_screen, fix_pixels, zs))
    /\ ExactDeg2Rad(angles[1])
    /\ ExactDeg2Rad(angles[2])

\* The ray in the direction of the fixation turned by the viewing angles:
\* lines 42 to 54 of find_screen_and_point.
target_ray(fix_pixels, fix_screen, angles, zs) ==
    target_ray_sph(angles, get_spherical(to_global(fix_screen, fix_pixels, zs)))

-----------------------------------------------------------------------------
(* The inputs *)

\* The most Screen objects the caller constructs.
MaxScreens == 2

V(x, y, z) == <<I(x), I(y), I(z)>>

\* Degrees: <<a, d>> is a * ALPHA (in degrees) + d.
Deg(a, d) == <<a, d>>

Config(width, height, pitch, yaw, shift, radius) ==
    [ width |-> width, height |-> height, pitch |-> pitch, yaw |-> yaw,
      shift |-> shift, radius |-> radius ]

\* Arguments of Screen(...) that describe a screen: the screens of the
\* tests, a screen turned in both angles, a screen whose plane holds the
\* eye, a screen behind the eye, and curved screens of radius 5 that turn their hollow side and
\* their bulging side to the eye, one of them with its whole cylinder in
\* front of the eye.
ValidConfigs ==
    { Config(RQ(I(2)), I(1), Deg(0, 0), Deg(0, 0), V(0, 0, -1), None),
      Config(RQ(I(2)), I(1), Deg(0, 0), Deg(0, -90), V(-1, 0, 0), None),
      Config(RQ(I(5)), I(1), Deg(0, 0), Deg(0, 0), V(0, 0, -3), None),
      Config(RQ(I(3)), I(1), Deg(1, 0), Deg(-1, 0), V(0, 0, -2), None),
      Config(RQ(I(2)), I(1), Deg(0, 0), Deg(0, 0), V(3, 0, 0), None),
      Config(RQ(I(2)), I(1), Deg(0, 0), Deg(0, 0), V(0, 0, 2), None),
      Config(RQ(I(2)), I(1), Deg(0, 90), Deg(0, 0), V(0, 1, 2), None),
      Config(RAngle(10, 0), I(2), Deg(0, 0), Deg(0, 0), V(0, 0, -5), I(5)),
      Config(RAngle(10, 0), I(2), Deg(0, 0), Deg(0, 0), V(0, 0, 5), I(5)),
      Config(RAngle(10, 0), I(2), Deg(0, 0), Deg(0, 0), V(0, 0, -15), I(5)),
      Config(RAngle(0, 10), I(1), Deg(0, 0), Deg(0, 90), V(5, 0, 0), I(5)) }

\* Arguments the specification calls a configuration error.
InvalidConfigs ==
    { Config(RAngle(10, 0), I(2), Deg(0, 0), Deg(0, 0), V(0, 0, -5), Zero),
      Config(RAngle(10, 0), I(2), Deg(0, 0), Deg(0, 0), V(0, 0, -5), I(-5)),
      Config(RQ(Zero), I(1), Deg(0, 0), Deg(0, 0), V(0, 0, -1), None),
      Config(RQ(I(2)), I(-1), Deg(0, 0), Deg(0, 0), V(0, 0, -1), None) }

Configs == ValidConfigs \cup InvalidConfigs

\* The screens of a scene: flat screens one behind the other on the -z
\* axis, two of them in one plane, and the two curved screens.
SceneConfigs ==
    { Config(RQ(I(6)), I(6), Deg(0, 0), Deg(0, 0), V(0, 0, -4), None),
      Config(RQ(I(2)), I(2), Deg(0, 0), Deg(0, 0), V(0, 0, -2), None),
      Config(RQ(I(4)), I(2), Deg(0, 0), Deg(0, 0), V(0, 0, -2), None),
      Config(RAngle(10, 0), I(2), Deg(0, 0), Deg(0, 0), V(0, 0, -5), I(5)),
      Config(RAngle(10, 0), I(2), Deg(0, 0), Deg(0, 0), V(0, 0, 5), I(5)) }

\* Pixels, as fractions of the width and of the height: the corners, the
\* centre, the middles of three edges, points inside and points off the
\* screen.
PixelFractions ==
    { <<Zero, Zero>>, <<One, Zero>>, <<Zero, One>>, <<One, One>>,
      <<Q(1, 2), Q(1, 2)>>,
      <<Q(1, 2), Zero>>, <<Zero, Q(1, 2)>>, <<One, Q(1, 2)>>,
      <<Q(3, 10), Q(7, 10)>>, <<Q(3, 10), Q(1, 2)>>, <<Q(1, 2), Q(7, 10)>>,
      <<Q(-1, 2), Q(3, 2)>>, <<Q(1, 2), Q(3, 2)>> }

PixelInputs(self) ==
    { <<RScale(self.width, f[1]), FMul(self.height, f[2])>> : f \in PixelFractions }

\* Rays: along and across the axes, off axis, through the edges of the
\* 5 x 1 screen at distance 3, and along the plane of the screen turned in
\* both angles.
Rays ==
    { V(0, 0, -1), V(0, 1, -1), V(1, 0, -1), V(3, 0, -4), V(-3, 1, -4),
      V(0, 0, 1), V(1, 0, 0), V(0, 1, 0), V(-1, -1, 0),
      <<Zero, Q(1, 6), I(-1)>>, <<Q(5, 6), Q(-1, 6), I(-1)>>,
      <<Q(1, 3), Q(1, 3), I(-1)>>, V(1, 4, 3) }

\* The viewing angles (theta, phi), in degrees
AngleOffsets ==
    { <<Deg(0, 0), Deg(0, 0)>>, <<Deg(1, 0), Deg(0, 0)>>,
      <<Deg(0, 0), Deg(1, 0)>>, <<Deg(0, 180), Deg(0, 0)>> }

\* The lists of distinct members of S
Lists(S) ==
    { l \in UNION { [1..n -> S] : n \in 0..Cardinality(S) } :
         \A j, k \in 1..Len(l) : j # k => l[j] # l[k] }

-----------------------------------------------------------------------------
(* The state *)

VARIABLES
    screens,      \* the Screen objects constructed so far, each with the
                  \* arguments it was constructed from
    ret,          \* the last call and what it gave
    pc,           \* "idle", or "loop" inside find_screen_and_point
    args,         \* find_screen_and_point: its arguments
    ray,          \*   and its locals
    i,            \*   the index of the loop's next screen in args.screens
    best_screen,  \*   an index in args.screens, 0 for None
    best_pixels,
    min_dist

vars == <<screens, ret, pc, args, ray, i, best_screen, best_pixels, min_dist>>

locals == <<pc, args, ray, i, best_screen, best_pixels, min_dist>>

NoCall == [op |-> "none"]

Init ==
    /\ screens = {}
    /\ ret = NoCall
    /\ pc = "idle"
    /\ args = None
    /\ ray = None
    /\ i = 0
    /\ best_screen = 0
    /\ best_pixels = None
    /\ min_dist = PInf

\* The signs of the zero divisors of a call on self: ray @ self.normal in
\* the flat branch, self.radius in to_global.
Signs(self, r) ==
    IF \/ self.radius = Zero
       \/ (self.radius = None /\ r # None /\ Dot(r, self.normal) = Zero)
    THEN ZeroSigns ELSE {1}

\* The caller is done with the result of the last call.
Discard ==
    /\ pc = "idle"
    /\ ret # NoCall
    /\ ret' = NoCall
    /\ UNCHANGED <<screens, locals>>

\* The constructed object joins the caller's screens.
Constructed(c, self) ==
    /\ screens' = screens \cup {[args |-> c, self |-> self]}
    /\ ret' = [op |-> "Screen", self |-> [args |-> c, self |-> self],
               arg |-> c, value |-> self]

\* screen = Screen(width, height, pitch, yaw, shift, radius)
Construct(C) ==
    /\ pc = "idle"
    /\ ret = NoCall
    /\ Cardinality(screens) < MaxScreens
    /\ \E c \in C :
        \E zs \in (IF c.radius = Zero THEN ZeroSigns ELSE {1}) :
          /\ Exact_Screen_init(c.width, c.height, c.pitch, c.yaw, c.shift, c.radius, zs)
          /\ Constructed(c, Screen_init(c.width, c.height, c.pitch, c.yaw,
                                        c.shift, c.radius, zs))
    /\ UNCHANGED locals

\* screen.to_global(pixels)
ToGlobal ==
    /\ pc = "idle"
    /\ ret = NoCall
    /\ \E e \in screens :
        \E pixels \in PixelInputs(e.self) :
          \E zs \in Signs(e.self, None) :
            /\ Exact_to_global(e.self, pixels, zs)
            /\ ret' = [op |-> "to_global", self |-> e, arg |-> pixels,
                       value |-> to_global(e.self, pixels, zs)]
    /\ UNCHANGED <<screens, locals>>

\* screen.find_intersect(ray), with one of the rays above
FindIntersect ==
    /\ pc = "idle"
    /\ ret = NoCall
    /\ \E e \in screens :
        \E r \in Rays :
          \E zs \in Signs(e.self, r) :
            /\ Exact_find_intersect(e.self, r, zs)
            /\ ret' = [op |-> "find_intersect", self |-> e, arg |-> r,
                       pixels |-> None, target |-> None,
                       value |-> find_intersect(e.self, r, zs)]
    /\ UNCHANGED <<screens, locals>>

\* screen.find_intersect(k * screen.to_global(pixels)): the ray towards the
\* point that the last call, of to_global, gave, of that length or another
Lengths == {Q(1, 2), Two}

FindIntersectTowards ==
    /\ pc = "idle"
    /\ ret.op = "to_global"
    /\ VFinite(ret.value)
    /\ \E r \in { VScale(k, ret.value) : k \in Lengths } :
        \E zs \in Signs(ret.self.self, r) :
          /\ Exact_find_intersect(ret.self.self, r, zs)
          /\ ret' = [op |-> "find_intersect", self |-> ret.self, arg |-> r,
                     pixels |-> ret.arg, target |-> ret.value,
                     value |-> find_intersect(ret.self.self, r, zs)]
    /\ UNCHANGED <<screens, locals>>

Next ==
    \/ Construct(Configs)
    \/ ToGlobal
    \/ FindIntersect
    \/ FindIntersectTowards
    \/ Discard

Spec == Init /\ [][Next]_vars

-----------------------------------------------------------------------------
(* scenes.py: find_screen_and_point *)

\* The fixations: pixels of the fixation screen, as fractions of its size:
\* the centre and the middles of three edges
FixPixels(self) ==
    { <<RScale(self.width, f[1]), FMul(self.height, f[2])>> :
         f \in { <<Q(1, 2), Q(1, 2)>>, <<Zero, Q(1, 2)>>, <<One, Q(1, 2)>>,
                 <<Q(1, 2), One>> } }

ExactNorm(found) == found.kind = "Hit" => ExactSqrt(NormSq(found.point))

\* The screens on which find_intersect of the ray r and the norm of its
\* point are exact
ExactCandidates(r) ==
    { e \in screens :
         \A zs \in Signs(e.self, r) :
            /\ Exact_find_intersect(e.self, r, zs)
            /\ ExactNorm(find_intersect(e.self, r, zs)) }

\* Lines 56 to 58: the loop is entered with the ray r.
Entered(a, r) ==
    /\ pc' = "loop"
    /\ args' = a
    /\ ray' = r
    /\ i' = 1
    /\ best_screen' = 0
    /\ best_pixels' = None
    /\ min_dist' = PInf
    /\ UNCHANGED <<screens, ret>>

\* The candidates are any list of the caller's screens.
Called(fix_pixels, fix_screen, angles, r) ==
    \E l \in Lists(ExactCandidates(r)) :
        Entered([fix_pixels |-> fix_pixels, fix_screen |-> fix_screen,
                 screens |-> l, angles |-> angles], r)

\* find_screen_and_point(fix_pixels, fix_screen, screens, angles)
Call ==
    /\ pc = "idle"
    /\ ret = NoCall
    /\ \E fix_screen \in screens, angles \in AngleOffsets :
        \E fix_pixels \in FixPixels(fix_screen.self) :
          \E zs \in Signs(fix_screen.self, None) :
            /\ Exact_target_ray(fix_pixels, fix_screen.self, angles, zs)
            /\ Called(fix_pixels, fix_screen, angles,
                      target_ray(fix_pixels, fix_screen.self, angles, zs))

\* A variant of try_dist that keeps the last Hit.
try_dist_last(pixels, dist) ==
    /\ best_screen' = i
    /\ best_pixels' = pixels
    /\ min_dist' = dist

\* A variant of try_dist that compares with <=.
try_dist_le(pixels, dist) ==
    IF FLe(dist, min_dist)
    THEN /\ best_screen' = i
         /\ best_pixels' = pixels
         /\ min_dist' = dist
    ELSE UNCHANGED <<best_screen, best_pixels, min_dist>>

\* A variant of try_dist that keeps the farthest.
try_dist_farthest(pixels, dist) ==
    IF best_screen = 0 \/ FLt(min_dist, dist)
    THEN /\ best_screen' = i
         /\ best_pixels' = pixels
         /\ min_dist' = dist
    ELSE UNCHANGED <<best_screen, best_pixels, min_dist>>

\* Lines 68 to 71
try_dist(pixels, dist) ==
    IF FLt(dist, min_dist)
    THEN /\ best_screen' = i
         /\ best_pixels' = pixels
         /\ min_dist' = dist
    ELSE UNCHANGED <<best_screen, best_pixels, min_dist>>

\* Lines 65 to 71, when find_intersect returns
try_found(found) ==
    /\ found.kind = "Hit"
    /\ try_dist(found.pixels, Norm(found.point))

\* One turn of the loop in which find_intersect returns
LoopTry ==
    /\ pc = "loop"
    /\ i <= Len(args.screens)
    /\ \E zs \in Signs(args.screens[i].self, ray) :
          try_found(find_intersect(args.screens[i].self, ray, zs))
    /\ i' = i + 1
    /\ UNCHANGED <<screens, ret, pc, args, ray>>

\* A variant of except_NoIntersection that lets the exception out.
except_nothing(found) ==
    /\ found.kind = "NoIntersection"
    /\ ret' = [op |-> "find_screen_and_point", self |-> args.fix_screen,
               arg |-> args, ray |-> ray,
               value |-> [kind |-> "NoIntersection", screen |-> args.fix_screen,
                          pixels |-> None]]
    /\ pc' = "idle"
    /\ args' = None
    /\ ray' = None
    /\ i' = 0
    /\ best_screen' = 0
    /\ best_pixels' = None
    /\ min_dist' = PInf

\* Lines 73 and 74: except NoIntersection: continue
except_NoIntersection(found) ==
    /\ found.kind = "NoIntersection"
    /\ i' = i + 1
    /\ UNCHANGED <<ret, pc, args, ray, best_screen, best_pixels, min_dist>>

\* One turn of the loop in which find_intersect raises NoIntersection
LoopExcept ==
    /\ pc = "loop"
    /\ i <= Len(args.screens)
    /\ \E zs \in Signs(args.screens[i].self, ray) :
          except_NoIntersection(find_intersect(args.screens[i].self, ray, zs))
    /\ UNCHANGED screens

\* The call ends with the result v.
Left(v) ==
    /\ ret' = [op |-> "find_screen_and_point", self |-> args.fix_screen,
               arg |-> args, ray |-> ray, value |-> v]
    /\ pc' = "idle"
    /\ args' = None
    /\ ray' = None
    /\ i' = 0
    /\ best_screen' = 0
    /\ best_pixels' = None
    /\ min_dist' = PInf
    /\ UNCHANGED screens

\* Lines 76 to 78: raise RuntimeError
Raise ==
    /\ pc = "loop"
    /\ i > Len(args.screens)
    /\ best_screen = 0
    /\ Left([kind |-> "RuntimeError", screen |-> args.fix_screen, pixels |-> None])

\* Line 80: return best_screen, best_pixels
Return ==
    /\ pc = "loop"
    /\ i > Len(args.screens)
    /\ best_screen # 0
    /\ Left([kind |-> "return", screen |-> args.screens[best_screen],
             pixels |-> best_pixels])

SceneNext ==
    \/ Construct(SceneConfigs)
    \/ Call
    \/ LoopTry
    \/ LoopExcept
    \/ Raise
    \/ Return
    \/ Discard

SceneSpec == Init /\ [][SceneNext]_vars

-----------------------------------------------------------------------------
(* Properties of Screen *)

IsFlat(e) == e.self.radius = None

IsValid(c) ==
    /\ c.radius # None => FLt(Zero, c.radius)
    /\ RLt(RQ(Zero), c.width)
    /\ FLt(Zero, c.height)

StrictlyInside(self, pixels) ==
    /\ RLt(RQ(Zero), pixels[1]) /\ RLt(pixels[1], self.width)
    /\ FLt(Zero, pixels[2]) /\ FLt(pixels[2], self.height)

\* A find_intersect of the ray towards to_global(p), p strictly inside a
\* flat screen and to_global(p) not the eye, has just returned or raised.
ForwardInverseCase ==
    /\ ret.op = "find_intersect"
    /\ ret.pixels # None
    /\ IsFlat(ret.self)
    /\ StrictlyInside(ret.self.self, ret.pixels)
    /\ NormSq(ret.target) # Zero

\* C4, as the claim states it: on a flat screen, for a pixel p strictly
\* inside the screen whose point to_global(p) is at positive distance from
\* the eye, find_intersect of the ray towards to_global(p) is a Hit with
\* pixel p and point to_global(p).
C4_ForwardInverse_AsStated ==
    ForwardInverseCase => ret.value = Hit(ret.target, ret.pixels)

\* C4, amended: the same, for the flat screens whose plane does not pass
\* through the eye (shift @ normal # 0).
C4_ForwardInverse ==
    (ForwardInverseCase /\ Dot(ret.self.self.shift, ret.self.self.normal) # Zero)
        => ret.value = Hit(ret.target, ret.pixels)

\* C4: the round trip has been made on the screen turned in both angles,
\* with a ray twice as long as the point is far.
C4_Witness ==
    /\ ForwardInverseCase
    /\ Dot(ret.self.self.shift, ret.self.self.normal) # Zero
    /\ ret.self.args.pitch = Deg(1, 0)
    /\ ret.arg = VScale(Two, ret.target)
    /\ ret.value.kind = "Hit"

\* A find_intersect on a flat screen with pitch = 0, yaw = 0 and shift
\* (0, 0, -d), d > 0, of a ray (a, b, -1), has just returned or raised.
FrontalCase ==
    /\ ret.op = "find_intersect"
    /\ IsFlat(ret.self)
    /\ ret.self.args.pitch = Deg(0, 0)
    /\ ret.self.args.yaw = Deg(0, 0)
    /\ ret.self.args.shift[1] = Zero
    /\ ret.self.args.shift[2] = Zero
    /\ FLt(ret.self.args.shift[3], Zero)
    /\ ret.arg[3] = I(-1)

FrontalX == FAdd(FDiv(RatOf(ret.self.args.width), Two, 1),
                 FMul(FNeg(ret.self.args.shift[3]), ret.arg[1]))

FrontalY == FAdd(FDiv(ret.self.args.height, Two, 1),
                 FMul(FNeg(ret.self.args.shift[3]), ret.arg[2]))

\* C5: on a flat screen with pitch = 0, yaw = 0 and shift (0, 0, -d), d > 0,
\* a ray (a, b, -1) is a Hit with pixel (width/2 + d*a, height/2 + d*b) when
\* 0 <= x <= width and 0 <= y <= height, the bounds included, and a Miss
\* otherwise; with width 5, height 1 and d = 3 the ray (0, 0, -1) hits the
\* pixel (5/2, 1/2) and the ray (0, 1, -1) misses.
C5_FlatBounds ==
    /\ FrontalCase =>
          IF /\ FLe(Zero, FrontalX) /\ FLe(FrontalX, RatOf(ret.self.args.width))
             /\ FLe(Zero, FrontalY) /\ FLe(FrontalY, ret.self.args.height)
          THEN /\ ret.value.kind = "Hit"
               /\ ret.value.pixels = <<RQ(FrontalX), FrontalY>>
          ELSE ret.value = NoIntersection
    /\ ( /\ ret.op = "find_intersect"
         /\ ret.self.args = Config(RQ(I(5)), I(1), Deg(0, 0), Deg(0, 0), V(0, 0, -3), None) )
       => /\ ret.arg = V(0, 0, -1) =>
                 /\ ret.value.kind = "Hit"
                 /\ ret.value.pixels = <<RQ(Q(5, 2)), Q(1, 2)>>
          /\ ret.arg = V(0, 1, -1) => ret.value = NoIntersection

\* C5: the ray through the corner (5, 0) of the 5 x 1 screen at distance 3
\* has hit it.
C5_Witness ==
    /\ FrontalCase
    /\ ret.arg = <<Q(5, 6), Q(-1, 6), I(-1)>>
    /\ ret.value.kind = "Hit"
    /\ ret.value.pixels = <<RQ(I(5)), Zero>>

\* The first two columns of yaw_matrix @ pitch_matrix, written out
AffineCol0(pitch, yaw) == <<FCos(yaw), Zero, FSin(yaw)>>

AffineCol1(pitch, yaw) ==
    << FNeg(FMul(FSin(yaw), FSin(pitch))), FCos(pitch), FMul(FCos(yaw), FSin(pitch)) >>

AffineMap(c, pixels) ==
    VAdd(c.shift,
         VAdd(VScale(FSub(RatOf(pixels[1]), FDiv(RatOf(c.width), Two, 1)),
                     AffineCol0(deg2rad(c.pitch), deg2rad(c.yaw))),
              VScale(FSub(pixels[2], FDiv(c.height, Two, 1)),
                     AffineCol1(deg2rad(c.pitch), deg2rad(c.yaw)))))

\* C6: on a flat screen, to_global of any pixel (px, py), in the bounds or
\* out of them, is shift + (px - width/2) * col0 + (py - height/2) * col1,
\* col0 and col1 the first two columns of yaw_matrix @ pitch_matrix; with
\* width 2, height 1, pitch 0: yaw 0 and shift (0, 0, -1) map (0, 0) to
\* (-1, -1/2, -1), and yaw -90 and shift (-1, 0, 0) map (0, 0) to
\* (-1, -1/2, 1).
C6_FlatAffine ==
    (ret.op = "to_global" /\ IsFlat(ret.self)) =>
        /\ ret.value = AffineMap(ret.self.args, ret.arg)
        /\ ( /\ ret.self.args = Config(RQ(I(2)), I(1), Deg(0, 0), Deg(0, 0), V(0, 0, -1), None)
             /\ ret.arg = <<RQ(Zero), Zero>> )
           => ret.value = <<I(-1), Q(-1, 2), I(-1)>>
        /\ ( /\ ret.self.args = Config(RQ(I(2)), I(1), Deg(0, 0), Deg(0, -90), V(-1, 0, 0), None)
             /\ ret.arg = <<RQ(Zero), Zero>> )
           => ret.value = <<I(-1), Q(-1, 2), I(1)>>

\* C6: to_global has mapped a pixel out of the bounds of the screen turned
\* in both angles.
C6_Witness ==
    /\ ret.op = "to_global"
    /\ IsFlat(ret.self)
    /\ ret.self.args.pitch = Deg(1, 0)
    /\ ret.self.args.yaw = Deg(-1, 0)
    /\ ret.arg = <<RScale(ret.self.self.width, Q(-1, 2)), FMul(ret.self.self.height, Q(3, 2))>>
    /\ VFinite(ret.value)

\* C7, as the claim states it: on every constructed Screen, flat or curved,
\* to_global((width/2, height/2)) is shift.
C7_CenterRoundTrip ==
    ( /\ ret.op = "to_global"
      /\ ret.arg = <<HalfWidth(ret.self.self), HalfHeight(ret.self.self)>> )
        => ret.value = ret.self.self.shift

\* C8: on a flat screen, normal is the third column of rotation, and for
\* any two pixels p1, p2 the vector to_global(p1) - to_global(p2) is
\* orthogonal to normal.
C8_NormalConsistency ==
    (ret.op = "to_global" /\ IsFlat(ret.self)) =>
        /\ ret.self.self.normal = Col(ret.self.self.rotation, 3)
        /\ \A p2 \in PixelInputs(ret.self.self) :
              Dot(VSub(ret.value, to_global(ret.self.self, p2, 1)),
                  ret.self.self.normal) = Zero

\* C8: to_global has mapped a corner of the screen turned in both angles.
C8_Witness ==
    /\ ret.op = "to_global"
    /\ IsFlat(ret.self)
    /\ ret.self.args.yaw = Deg(-1, 0)
    /\ ret.arg = <<ret.self.self.width, ret.self.self.height>>
    /\ ret.value # ret.self.self.shift

\* C9, as the claim states it: no Screen with radius <= 0, width <= 0 or
\* height <= 0 is returned by the constructor, and to_global and
\* find_intersect act on no such Screen.
C9_ConstructionFails ==
    /\ \A e \in screens : IsValid(e.args)
    /\ ret.op \in {"Screen", "to_global", "find_intersect"} => IsValid(ret.self.args)

\* C10, as the claim states it, for the screens of positive width, height
\* and radius: when find_intersect of a non-zero ray returns a Hit, the
\* point of the Hit is t * ray for some t >= 0.
C10_NoHitBehindEye ==
    ( /\ ret.op = "find_intersect"
      /\ IsValid(ret.self.args)
      /\ NormSq(ret.arg) # Zero
      /\ ret.value.kind = "Hit" )
        => /\ Cross(ret.value.point, ret.arg) = <<Zero, Zero, Zero>>
           /\ FLe(Zero, Dot(ret.value.point, ret.arg))

-----------------------------------------------------------------------------
(* Properties of find_screen_and_point *)

\* What find_intersect of the ray r gives on the screen e
Found(e, r) == { find_intersect(e.self, r, zs) : zs \in Signs(e.self, r) }

\* The Hits of the candidates l on the ray r, each with its place in l
Hits(l, r) ==
    { h \in UNION { { <<j, f>> : f \in Found(l[j], r) } : j \in 1..Len(l) } :
         h[2].kind = "Hit" }

Resolved == ret.op = "find_screen_and_point"

\* C1: when at least one candidate yields a Hit, find_screen_and_point
\* returns a screen whose Hit point has the least norm of all the
\* candidates' Hit points, with the pixel of that Hit; no candidate has a
\* Hit strictly nearer.
C1_ClosestHit ==
    (Resolved /\ Hits(ret.arg.screens, ret.ray) # {}) =>
        /\ ret.value.kind = "return"
        /\ \E h \in Hits(ret.arg.screens, ret.ray) :
              /\ ret.value.screen = ret.arg.screens[h[1]]
              /\ ret.value.pixels = h[2].pixels
              /\ \A g \in Hits(ret.arg.screens, ret.ray) :
                    ~FLt(Norm(g[2].point), Norm(h[2].point))

\* C1: of two candidates that both yield a Hit, at different distances,
\* the second has been returned.
C1_Witness ==
    /\ Resolved
    /\ Len(ret.arg.screens) = 2
    /\ \E g, h \in Hits(ret.arg.screens, ret.ray) :
          /\ g[1] = 1
          /\ h[1] = 2
          /\ FLt(Norm(h[2].point), Norm(g[2].point))
    /\ ret.value.kind = "return"
    /\ ret.value.screen = ret.arg.screens[2]

\* The loop is at a candidate that yields a Miss.
AtMiss ==
    /\ pc = "loop"
    /\ i <= Len(args.screens)
    /\ NoIntersection \in Found(args.screens[i], ray)

\* C2: find_screen_and_point ends with RuntimeError exactly when every
\* candidate yields a Miss (an empty list included) and returns a screen
\* and a pixel otherwise; NoIntersection never reaches the caller, and the
\* loop absorbs the Miss of a candidate and goes on to the next one.
C2_SoleFailure ==
    /\ [](Resolved =>
            /\ ret.value.kind \in {"RuntimeError", "return"}
            /\ ret.value.kind = "RuntimeError" <=>
                  Hits(ret.arg.screens, ret.ray) = {}
            /\ ret.value.kind = "return" =>
                  /\ \E j \in 1..Len(ret.arg.screens) :
                        ret.value.screen = ret.arg.screens[j]
                  /\ ret.value.pixels # None)
    /\ [][AtMiss =>
            /\ pc' = "loop"
            /\ i' = i + 1
            /\ UNCHANGED <<screens, ret, args, ray, best_screen, best_pixels, min_dist>>]_vars

\* C2: RuntimeError has been raised for a list of two candidates.
C2_Witness ==
    /\ Resolved
    /\ Len(ret.arg.screens) = 2
    /\ ret.value.kind = "RuntimeError"

\* A call with the viewing angles (0, 0) and a fixation pixel on the
\* fixation screen has ended.
IdentityCase ==
    /\ Resolved
    /\ ret.arg.angles = <<Deg(0, 0), Deg(0, 0)>>
    /\ RLe(RQ(Zero), ret.arg.fix_pixels[1])
    /\ RLe(ret.arg.fix_pixels[1], ret.arg.fix_screen.self.width)
    /\ FLe(Zero, ret.arg.fix_pixels[2])
    /\ FLe(ret.arg.fix_pixels[2], ret.arg.fix_screen.self.height)

IdentityResult ==
    /\ ret.value.kind = "return"
    /\ ret.value.screen = ret.arg.fix_screen
    /\ ret.value.pixels = ret.arg.fix_pixels

\* C3, as the claim states it: for any fixation screen A, any fixation
\* pixel on A and any candidate list, find_screen_and_point with the
\* angles (0, 0) returns A and the fixation pixel.
C3_ResolverIdentity_AsStated == IdentityCase => IdentityResult

\* The fixation point of the call that has ended
FixPoint == to_global(ret.arg.fix_screen.self, ret.arg.fix_pixels, 1)

\* The ray from the eye meets the fixation screen at the fixation point
\* from the side its pixels face: a flat screen's plane does not hold the
\* eye, and a curved screen is met from its hollow side, the ray leaving
\* its cylinder at the fixation point.
FacesEye(self, point, y) ==
    IF self.radius = None
    THEN Dot(self.shift, self.normal) # Zero
    ELSE FLt(Zero, Dot(VSub(point, VAdd(self.base, VScale(y, self.axis))), point))

\* No other candidate has a Hit that the loop would keep in place of the
\* fixation screen's, which stands at j in the list: a Hit strictly
\* nearer, or a Hit as near of a candidate earlier in the list.
Unoccluded(l, r, j, dist) ==
    \A h \in Hits(l, r) :
        h[1] # j =>
           /\ ~FLt(Norm(h[2].point), dist)
           /\ h[1] < j => FLt(dist, Norm(h[2].point))

IdentityPrecondition ==
    /\ IdentityCase
    /\ NormSq(FixPoint) # Zero
    /\ FacesEye(ret.arg.fix_screen.self, FixPoint, ret.arg.fix_pixels[2])
    /\ \E j \in 1..Len(ret.arg.screens) :
          /\ ret.arg.screens[j] = ret.arg.fix_screen
          /\ Unoccluded(ret.arg.screens, ret.ray, j, Norm(FixPoint))

\* C3, amended: find_screen_and_point with the angles (0, 0) returns the
\* fixation screen A and the fixation pixel when A is in the candidate
\* list, the fixation point is not the eye, the ray meets A from the side
\* its pixels face, and no other candidate has a Hit strictly nearer than
\* the fixation point, or as near and earlier in the list.
C3_ResolverIdentity == IdentityPrecondition => IdentityResult

\* C3: the fixation screen has been returned from the second place of the
\* list, the first candidate having a Hit farther away.
C3_Witness ==
    /\ IdentityPrecondition
    /\ Len(ret.arg.screens) = 2
    /\ ret.arg.screens[2] = ret.arg.fix_screen
    /\ \E h \in Hits(ret.arg.screens, ret.ray) : h[1] = 1
    /\ IdentityResult

-----------------------------------------------------------------------------
(* Properties of the curved branch of find_intersect *)

\* s * ray is a point of the cylinder of the curved screen: at the distance
\* |radius| from the axis, the line through base along axis.
OnCylinder(self, r, s) ==
    NormSq(Cross(VSub(VScale(s, r), self.base), self.axis))
        = FMul(self.radius, self.radius)

\* t of the call that has ended, from its arguments
RootTaken(self, r) ==
    curved_t(self, Cross(r, self.axis),
             FSqrt(curved_disc(self, Cross(r, self.axis))), 1)

\* The other solution of the quadratic
RootLeft(self, r) ==
    FDiv(FSub(Dot(Cross(r, self.axis), Cross(self.base, self.axis)),
              FSqrt(curved_disc(self, Cross(r, self.axis)))),
         Dot(Cross(r, self.axis), Cross(r, self.axis)), 1)

FAbs(x) == IF FLt(x, Zero) THEN FNeg(x) ELSE x

\* A find_intersect on a curved screen has ended whose ray crosses the
\* cylinder at two distinct parameters.
TwoCrossings ==
    /\ ret.op = "find_intersect"
    /\ ret.self.self.radius # None
    /\ FLt(Zero, curved_disc(ret.self.self, Cross(ret.arg, ret.self.self.axis)))
    /\ OnCylinder(ret.self.self, ret.arg, RootTaken(ret.self.self, ret.arg))
    /\ OnCylinder(ret.self.self, ret.arg, RootLeft(ret.self.self, ret.arg))

\* C11, as the claim states it: when the ray crosses the cylinder at two
\* distinct parameters, the t of the + root is the nearer crossing: the one
\* of smaller ray parameter, or of smaller distance from the eye.
C11_PlusRootNearer ==
    TwoCrossings =>
        \/ FLt(RootTaken(ret.self.self, ret.arg), RootLeft(ret.self.self, ret.arg))
        \/ FLt(FAbs(RootTaken(ret.self.self, ret.arg)),
               FAbs(RootLeft(ret.self.self, ret.arg)))

\* C11, amended: when the discriminant is positive, the two roots are the
\* parameters of the two crossings of the cylinder, the t of the + root is
\* the larger of them, and a Hit is the point t * ray.
C11_PlusRootLarger ==
    ( /\ ret.op = "find_intersect"
      /\ ret.self.self.radius # None
      /\ FLt(Zero, curved_disc(ret.self.self, Cross(ret.arg, ret.self.self.axis))) )
        => /\ TwoCrossings
           /\ FLt(RootLeft(ret.self.self, ret.arg), RootTaken(ret.self.self, ret.arg))
           /\ ret.value.kind = "Hit" =>
                 ret.value.point = VScale(RootTaken(ret.self.self, ret.arg), ret.arg)

\* C11: a ray has hit a curved screen at the farther of two crossings that
\* are both in front of the eye.
C11_Witness ==
    /\ TwoCrossings
    /\ FLt(Zero, RootLeft(ret.self.self, ret.arg))
    /\ FLt(RootLeft(ret.self.self, ret.arg), RootTaken(ret.self.self, ret.arg))
    /\ ret.value.kind = "Hit"
    /\ ret.value.point = VScale(RootTaken(ret.self.self, ret.arg), ret.arg)

-----------------------------------------------------------------------------
(* Properties of the order of the candidates *)

\* The Hits of least norm among the Hits H
NearestOf(H) ==
    { h \in H : \A g \in H : ~FLt(Norm(g[2].point), Norm(h[2].point)) }

\* The Hits of least norm among the Hits of the candidates l on the ray r
Nearest(l, r) == NearestOf(Hits(l, r))

\* C12: when several candidates have Hits at the same least distance,
\* find_screen_and_point returns the first of them in the list, with its
\* pixel; in the loop a candidate takes the place of the current best only
\* when its distance is strictly smaller.
C12_FirstWins ==
    /\ [](Resolved =>
            \A h \in Nearest(ret.arg.screens, ret.ray) :
               (\A g \in Nearest(ret.arg.screens, ret.ray) : h[1] <= g[1]) =>
                  /\ ret.value.kind = "return"
                  /\ ret.value.screen = ret.arg.screens[h[1]]
                  /\ ret.value.pixels = h[2].pixels)
    /\ [][(pc = "loop" /\ pc' = "loop" /\ best_screen' # best_screen) =>
            /\ best_screen' = i
            /\ FLt(min_dist', min_dist)]_vars

\* C12: of two candidates with Hits at the same distance, the first has
\* been returned.
C12_Witness ==
    /\ Resolved
    /\ Len(ret.arg.screens) = 2
    /\ \E g, h \in Nearest(ret.arg.screens, ret.ray) : g[1] = 1 /\ h[1] = 2
    /\ ret.value.kind = "return"
    /\ ret.value.screen = ret.arg.screens[1]

\* The orders of the candidates l
Orders(l) ==
    { p \in [1..Len(l) -> { l[j] : j \in 1..Len(l) }] :
         \A j \in 1..Len(l) : \E k \in 1..Len(l) : p[k] = l[j] }

\* The outcome of the ended call is that of the candidates in the order
\* p, whose Hits are H, the nearest of them N.
OutcomeOf(p, H, N) ==
    /\ ret.value.kind = "RuntimeError" <=> H = {}
    /\ ret.value.kind = "return" <=> H # {}
    /\ ret.value.kind = "return" =>
          \E h \in N :
              /\ ret.value.screen = p[h[1]]
              /\ ret.value.pixels = h[2].pixels
    /\ \A h \in N :
          (\A g \in N : g[1] = h[1]) =>
              /\ ret.value.screen = p[h[1]]
              /\ ret.value.pixels = h[2].pixels

\* What find_intersect of the ray r gives on each screen of S, evaluated
\* screen by screen
FoundBy(S, r) == [e \in S |-> Found(e, r)]

\* The Hits of the candidates in the order p, each with its place in p,
\* from the results F of the screens
HitsFrom(p, F) ==
    { h \in UNION { { <<j, f>> : f \in F[p[j]] } : j \in 1..Len(p) } :
         h[2].kind = "Hit" }

OutcomeOfOrder(p, H) == OutcomeOf(p, H, NearestOf(H))

OutcomeOfAll(l, F) == \A p \in Orders(l) : OutcomeOfOrder(p, HitsFrom(p, F))

\* C13: the outcome of find_screen_and_point is that of every order p of
\* its candidates: RuntimeError when no candidate of p has a Hit, otherwise
\* a screen of the list with a Hit of the least distance among the Hits of
\* p, and, when one screen alone has a Hit of that distance, that screen
\* and the pixel of its Hit.
C13_OrderIndependent ==
    Resolved =>
        OutcomeOfAll(ret.arg.screens,
                     FoundBy({ ret.arg.screens[j] : j \in 1..Len(ret.arg.screens) },
                             ret.ray))

\* C13: of two candidates with Hits at different distances, the nearer
\* one, first in the list, has been returned.
C13_Witness ==
    /\ Resolved
    /\ Len(ret.arg.screens) = 2
    /\ \E g, h \in Hits(ret.arg.screens, ret.ray) :
          /\ g[1] = 1
          /\ h[1] = 2
          /\ FLt(Norm(g[2].point), Norm(h[2].point))
    /\ ret.value.kind = "return"
    /\ ret.value.screen = ret.arg.screens[1]

-----------------------------------------------------------------------------
(* Properties of the flat branch on rays along the plane *)

\* A find_intersect on a flat screen has ended whose ray is not zero and
\* is parallel to the plane of the screen.
ParallelCase ==
    /\ ret.op = "find_intersect"
    /\ IsFlat(ret.self)
    /\ NormSq(ret.arg) # Zero
    /\ Dot(ret.arg, ret.self.self.normal) = Zero

\* C14: on a flat screen a non-zero ray with ray @ normal = 0 is a Miss,
\* whether shift @ normal is positive, negative or zero; it is never a Hit.
C14_ParallelMiss == ParallelCase => ret.value = NoIntersection

\* C14: a ray with three non-zero components along the plane of the screen
\* turned in both angles has missed it.
C14_Witness ==
    /\ ParallelCase
    /\ ret.self.args.pitch = Deg(1, 0)
    /\ ret.arg = V(1, 4, 3)
    /\ ret.value = NoIntersection

=============================================================================
